---- MODULE Spec2Model ----
(***************************************************************************)
(* Model of src/calculate.py: the interactive masonry calculator.          *)
(*                                                                         *)
(* Numbers.  Python floats are modelled as exact rationals [n, d] in       *)
(* lowest terms with d > 0 (rounding error of IEEE arithmetic is not       *)
(* modelled); Python's None is the record with d = 0.  Lengths are in      *)
(* metres, as in the program.                                              *)
(*                                                                         *)
(* Strings.  The Cyrillic literals of the program are transliterated:      *)
(* "kirpich" is the key of the first built-in material, "blok" the second. *)
(***************************************************************************)
EXTENDS Integers, Sequences, FiniteSets, TLC

VARIABLES
    pc,                     \* position of the session (the prompt it waits at)
    file,                   \* content of materials.json
    materials,              \* the in-memory catalog, in insertion order
    walls,                  \* list of Wall
    openings,               \* list of Opening
    cur,                    \* fields entered so far for the entity being built
    material,               \* the chosen (or just added) Material
    entered,                \* the line the operator typed last
    msg,                    \* the message the last step reported
    exc,                    \* the exception that ended the session, "" if none
    total_wall_volume, perimeter,
    total_openings_volume, opening_details,
    net_wall_volume, blocks_count, mortar_volume, blocks_in_walls,
    reports                 \* result blocks appended to calculation_results.txt

vars == <<pc, file, materials, walls, openings, cur, material, entered, msg, exc,
          total_wall_volume, perimeter, total_openings_volume, opening_details,
          net_wall_volume, blocks_count, mortar_volume, blocks_in_walls, reports>>

-----------------------------------------------------------------------------
(* Bounds of the model *)

MaxWalls == 4
MaxOpenings == 2
MaxRuns == 1
MaxWVWalls == 5

-----------------------------------------------------------------------------
(* Exact rational arithmetic standing for Python's float arithmetic *)

Abs(x) == IF x < 0 THEN -x ELSE x

RECURSIVE GCD(_, _)
GCD(a, b) == IF b = 0 THEN a ELSE GCD(b, a % b)

\* The rational n/d (d # 0) in lowest terms with a positive denominator.
R(n, d) ==
    LET g == GCD(Abs(n), Abs(d))
        s == IF d < 0 THEN -1 ELSE 1
    IN  [n |-> (s * n) \div g, d |-> (s * d) \div g]

I(k) == [n |-> k, d |-> 1]
None == [n |-> 0, d |-> 0]
IsNone(x) == x.d = 0

RAdd(x, y) == R(x.n * y.d + y.n * x.d, x.d * y.d)
RSub(x, y) == R(x.n * y.d - y.n * x.d, x.d * y.d)
RMul(x, y) == R(x.n * y.n, x.d * y.d)
RDiv(x, y) == R(x.n * y.d, x.d * y.n)
RLt(x, y) == x.n * y.d < y.n * x.d
RLe(x, y) == x.n * y.d <= y.n * x.d
IsZero(x) == x.d # 0 /\ x.n = 0

\* Python's round(x) for a float x: to the nearest integer, ties to even.
Round(x) ==
    LET q == x.n \div x.d
        r == x.n - q * x.d
    IN  IF 2 * r < x.d THEN q
        ELSE IF 2 * r > x.d THEN q + 1
        ELSE IF q % 2 = 0 THEN q ELSE q + 1

Max(a, b) == IF b > a THEN b ELSE a

RECURSIVE RSum(_)
RSum(s) == IF s = <<>> THEN I(0) ELSE RAdd(RSum(SubSeq(s, 1, Len(s) - 1)), s[Len(s)])

-----------------------------------------------------------------------------
(* Data *)

Material(name, length, width, height, gost, mortar_rate) ==
    [name |-> name, length |-> length, width |-> width, height |-> height,
     gost |-> gost, mortar_rate |-> mortar_rate]

Wall(length, height, width) == [length |-> length, height |-> height, width |-> width]

Opening(name, length, height, count, width) ==
    [name |-> name, length |-> length, height |-> height, count |-> count, width |-> width]

NoMaterial == Material("", None, None, None, "", None)
NoFields ==
    [name |-> "", length |-> None, width |-> None, height |-> None, count |-> None,
     gost |-> ""]

\* str.lower() on the names the model uses
Lower(s) ==
    CASE s = "Gas" -> "gas"
      [] s = "Kirpich keramicheskij" -> "kirpich keramicheskij"
      [] s = "Blok keramicheskij" -> "blok keramicheskij"
      [] s = "Slab" -> "slab"
      [] s = "Plita" -> "plita"
      [] OTHER -> s

DefaultMortarRate == R(23, 100)

DefaultMaterials ==
    << [key |-> "kirpich",
        val |-> Material("Kirpich keramicheskij", R(25, 100), R(12, 100), R(65, 1000),
                         "GOST 530-2012", DefaultMortarRate)],
       [key |-> "blok",
        val |-> Material("Blok keramicheskij", R(51, 100), R(25, 100), R(219, 1000),
                         "GOST 530-2012", DefaultMortarRate)] >>

-----------------------------------------------------------------------------
(* The catalog file materials.json *)

\* What the file can hold when the session starts.  tag: "missing" (no file),
\* "malformed" (not JSON), "list" (a JSON document that is not a mapping),
\* "dict" (a JSON mapping); an entry's shape: "ok" (a mapping with the six
\* fields of Material), "nofield" (a mapping lacking one), "notmap" (a scalar).
FileOf(tag, entries) == [tag |-> tag, entries |-> entries]
FileEntry(key, shape, val) == [key |-> key, shape |-> shape, val |-> val]

\* JSON values: a number, null or a string
JNum(x) == [t |-> "number", num |-> x, str |-> ""]
JNull == [t |-> "null", num |-> None, str |-> ""]
JStr(x) == [t |-> "string", num |-> None, str |-> x]

\* json.dump of a field holding a float or None (None is written as null)
json_of_number(x) == IF IsNone(x) THEN JNull ELSE JNum(x)
\* json.load of such a field
number_of_json(j) == IF j.t = "number" THEN j.num ELSE None

\* line 51, vars(v): the JSON object written for a Material
vars_of(m) ==
    [name |-> JStr(m.name), length |-> json_of_number(m.length),
     width |-> json_of_number(m.width), height |-> json_of_number(m.height),
     gost |-> JStr(m.gost), mortar_rate |-> json_of_number(m.mortar_rate)]

\* material_of reading five fields and taking the default mortar rate of line 14
material_of_default_mortar(obj) ==
    Material(obj.name.str, number_of_json(obj.length), number_of_json(obj.width),
             number_of_json(obj.height), obj.gost.str, DefaultMortarRate)

\* line 46, Material(**v): the Material built from a JSON object
material_of(obj) ==
    Material(obj.name.str, number_of_json(obj.length), number_of_json(obj.width),
             number_of_json(obj.height), obj.gost.str, number_of_json(obj.mortar_rate))

ZeroLengthSlab == Material("Slab", I(0), R(1, 4), R(1, 10), "GOST 1", DefaultMortarRate)
ZeroWidthPlita == Material("Plita", R(1, 2), I(0), R(1, 10), "GOST 2", DefaultMortarRate)

FileInputs ==
    { FileOf("missing", <<>>),
      FileOf("malformed", <<>>),
      FileOf("list", <<>>),
      FileOf("dict", <<>>),
      FileOf("dict", <<FileEntry("slab", "nofield", vars_of(ZeroLengthSlab))>>),
      FileOf("dict", <<FileEntry("slab", "notmap", vars_of(NoMaterial))>>),
      FileOf("dict", <<FileEntry("slab", "ok", vars_of(ZeroLengthSlab)),
                       FileEntry("plita", "ok", vars_of(ZeroWidthPlita))>>) }

\* load_materials_from_file: the catalog read, or the exception that escapes.
load_materials_from_file(f) ==
    IF f.tag \in {"missing", "malformed"}
    THEN [exc |-> "", materials |-> <<>>]              \* except clause, line 47
    ELSE IF f.tag = "list"
    THEN [exc |-> "AttributeError", materials |-> <<>>]  \* data.items()
    ELSE IF \E i \in 1..Len(f.entries) : f.entries[i].shape # "ok"
    THEN [exc |-> "TypeError", materials |-> <<>>]       \* Material(**v)
    ELSE [exc |-> "",
          materials |-> [i \in 1..Len(f.entries) |->
                            [key |-> f.entries[i].key,
                             val |-> material_of(f.entries[i].val)]]]

\* save_materials_to_file: the file is rewritten in full.
save_materials_to_file(ms) ==
    FileOf("dict", [i \in 1..Len(ms) |-> FileEntry(ms[i].key, "ok", vars_of(ms[i].val))])

-----------------------------------------------------------------------------
(* Lines typed by the operator *)

Back == [kind |-> "w", val |-> None, str |-> "w"]
Empty == [kind |-> "empty", val |-> None, str |-> ""]
Text(s) == [kind |-> "text", val |-> None, str |-> s]
Num(r) == [kind |-> "num", val |-> r, str |-> ""]
NoEntry == Empty

\* input_with_back: one pass of its loop on the line `value`.
\* status "back": returns None; "ok": returns val; "bad_type": ValueError
\* caught, message, prompt again; "below_min": message, prompt again.
input_with_back(value, input_type, min_val) ==
    IF value.kind = "w"
    THEN [status |-> "back", val |-> None]
    ELSE IF value.kind # "num" \/ (input_type = "int" /\ value.val.d # 1)
    THEN [status |-> "bad_type", val |-> None]
    ELSE IF ~IsNone(min_val) /\ RLt(value.val, min_val)
    THEN [status |-> "below_min", val |-> None]
    ELSE [status |-> "ok", val |-> value.val]

-----------------------------------------------------------------------------
(* calculate_wall_volume *)

Lengths(ws) == [i \in 1..Len(ws) |-> ws[i].length]
Heights(ws) == [i \in 1..Len(ws) |-> ws[i].height]
Widths(ws) == [i \in 1..Len(ws) |-> ws[i].width]
Areas(ws) == [i \in 1..Len(ws) |-> RMul(ws[i].length, ws[i].height)]

unique_lengths(ws) == {ws[i].length : i \in 1..Len(ws)}

\* is_rectangular without the test of line 85
is_rectangular_any_count(ws) == Cardinality(unique_lengths(ws)) = 2

\* lines 85-87: the condition under which the rectangular formula is used
is_rectangular(ws) == Len(ws) = 4 /\ Cardinality(unique_lengths(ws)) = 2

\* rectangular_volume with perimeter = a + b
rectangular_volume_half_perimeter(ws, material_width) ==
    LET a == CHOOSE x \in unique_lengths(ws) : \A y \in unique_lengths(ws) : RLe(x, y)
        b == CHOOSE x \in unique_lengths(ws) : \A y \in unique_lengths(ws) : RLe(y, x)
        p == RAdd(a, b)
        avg_height == RDiv(RSum(Heights(ws)), I(4))
        width_layers == RDiv(RSum(Widths(ws)), RMul(I(4), material_width))
    IN  [volume |-> RMul(RMul(RMul(p, avg_height), material_width), width_layers),
         perimeter |-> p]

\* lines 88-92
rectangular_volume(ws, material_width) ==
    LET a == CHOOSE x \in unique_lengths(ws) : \A y \in unique_lengths(ws) : RLe(x, y)
        b == CHOOSE x \in unique_lengths(ws) : \A y \in unique_lengths(ws) : RLe(y, x)
        p == RMul(I(2), RAdd(a, b))
        avg_height == RDiv(RSum(Heights(ws)), I(4))
        width_layers == RDiv(RSum(Widths(ws)), RMul(I(4), material_width))
    IN  [volume |-> RMul(RMul(RMul(p, avg_height), material_width), width_layers),
         perimeter |-> p]

\* general_volume with the layer count not divided by the material width
general_volume_unscaled_layers(ws, material_width) ==
    LET total_area == RSum(Areas(ws))
        width_layers == RDiv(RSum(Widths(ws)), I(Len(ws)))
    IN  [volume |-> RMul(RMul(total_area, material_width), width_layers),
         perimeter |-> RSum(Lengths(ws))]

\* lines 95-98
general_volume(ws, material_width) ==
    LET total_area == RSum(Areas(ws))
        width_layers == RDiv(RSum(Widths(ws)), RMul(I(Len(ws)), material_width))
    IN  [volume |-> RMul(RMul(total_area, material_width), width_layers),
         perimeter |-> RSum(Lengths(ws))]

\* The exception calculate_wall_volume raises, "" if it returns.
wall_volume_exc(ws, material_width) ==
    IF ws = <<>> THEN ""
    ELSE IF IsNone(material_width) THEN "TypeError"
    ELSE IF IsZero(material_width) THEN "ZeroDivisionError"
    ELSE ""

calculate_wall_volume(ws, material_width) ==
    IF ws = <<>> THEN [volume |-> I(0), perimeter |-> I(0)]
    ELSE IF is_rectangular(ws) THEN rectangular_volume(ws, material_width)
    ELSE general_volume(ws, material_width)

-----------------------------------------------------------------------------
(* The calculation of one run, lines 245-272 *)

\* line 249
avg_wall_width(ws) == IF ws # <<>> THEN RDiv(RSum(Widths(ws)), I(Len(ws))) ELSE I(0)

\* opening_volume using the mean wall width for every opening
opening_volume_wall_width(op, avg_width) ==
    RMul(RMul(RMul(op.length, op.height), avg_width), op.count)

\* lines 251-252
opening_volume(op, avg_width) ==
    LET op_width == IF ~IsNone(op.width) THEN op.width ELSE avg_width
    IN  RMul(RMul(RMul(op.length, op.height), op_width), op.count)

\* lines 246-254: the (name, volume) pairs in input order, and their total
compute_opening_details(ops, avg_width) ==
    [i \in 1..Len(ops) |-> <<ops[i].name, opening_volume(ops[i], avg_width)>>]

compute_openings_total(ops, avg_width) ==
    RSum([i \in 1..Len(ops) |-> opening_volume(ops[i], avg_width)])

\* compute_net_volume without max(0, ...)
compute_net_volume_unclamped(gross, openings_total) == RSub(gross, openings_total)

\* line 256
compute_net_volume(gross, openings_total) ==
    LET diff == RSub(gross, openings_total)
    IN  IF RLt(I(0), diff) THEN diff ELSE I(0)

\* lines 259-260
compute_material_count(net, m) ==
    LET block_volume == RMul(RMul(m.length, m.width), m.height)
    IN  IF RLt(I(0), block_volume) THEN RDiv(net, block_volume) ELSE I(0)

\* line 263
compute_mortar_volume(net, m) == RMul(net, m.mortar_rate)

\* units_along without max(1, ...)
units_along_unfloored(wall_dim, material_dim) == Round(RDiv(wall_dim, material_dim))

\* lines 268-270: max(1, round(wall dimension / material dimension))
units_along(wall_dim, material_dim) == Max(1, Round(RDiv(wall_dim, material_dim)))

\* lines 266-272
compute_units_per_wall(ws, m) ==
    [i \in 1..Len(ws) |->
        <<i, units_along(ws[i].length, m.length)
             * units_along(ws[i].height, m.height)
             * units_along(ws[i].width, m.width)>>]

\* The line of the run at which an exception is raised (0: none) and its type.
run_fault(ws, m) ==
    IF IsNone(m.length) \/ IsNone(m.width) \/ IsNone(m.height)
    THEN [line |-> 259, exc |-> "TypeError"]
    ELSE IF IsNone(m.mortar_rate)
    THEN [line |-> 263, exc |-> "TypeError"]
    ELSE IF ws # <<>> /\ (IsZero(m.length) \/ IsZero(m.height) \/ IsZero(m.width))
    THEN [line |-> 268, exc |-> "ZeroDivisionError"]
    ELSE [line |-> 0, exc |-> ""]

-----------------------------------------------------------------------------
(* Back navigation, lines 134-155 and 217-238 *)

\* undo_last clearing the list instead of popping once
undo_all(list) == <<>>

\* walls.pop() / openings.pop() when the list is not empty
undo_last(list) == IF list # <<>> THEN SubSeq(list, 1, Len(list) - 1) ELSE list

\* back_target returning to the prompt of the field entered last
back_target_previous_field(p) ==
    CASE p = "wall_length" -> "wall_length"
      [] p = "wall_height" -> "wall_length"
      [] p = "wall_width" -> "wall_height"
      [] p = "op_length" -> "op_name"
      [] p = "op_height" -> "op_length"
      [] OTHER -> "op_height"

\* the prompt at which entry resumes after `continue`
back_target(p) ==
    IF p \in {"wall_length", "wall_height", "wall_width"} THEN "wall_length" ELSE "op_name"

-----------------------------------------------------------------------------
(* Bounded operator input *)

WallLengthEntries == {Back, Text("abc"), Num(R(1, 20)), Num(R(1, 10)), Num(I(6))}
WallHeightEntries == {Back, Text("abc"), Num(I(0)), Num(I(3))}
WallWidthEntries == {Back, Empty, Num(R(1, 100)), Num(R(3, 10))}
YesNoEntries == {Text("y"), Text("n")}
ChoiceEntries ==
    {Text("q"), Text("n"), Num(I(0)), Num(I(1)), Num(I(2)), Num(I(3)),
     Text("kirpich"), Text("Gas"), Text("zzz")}
MatNameEntries == {Text("Gas")}
MatDimEntries == {Back, Text("abc"), Num(R(1, 200)), Num(R(1, 4))}
MatGostEntries == {Text("GOST 530-2012")}
MortarEntries == {Back, Num(R(-1, 10)), Num(R(1, 5))}
OpNameEntries == {Empty, Text("okno")}
OpLengthEntries == {Back, Text("abc"), Num(I(1))}
OpHeightEntries == {Back, Num(R(1, 20)), Num(I(2))}
OpCountEntries == {Back, Num(R(3, 2)), Num(I(0)), Num(I(1))}
OpWidthEntries == {Empty, Text("abc"), Num(R(-1, 2))}

-----------------------------------------------------------------------------
(* The session: calculate_materials *)

results == <<total_wall_volume, perimeter, total_openings_volume, opening_details,
             net_wall_volume, blocks_count, mortar_volume, blocks_in_walls>>

Init ==
    /\ pc = "start"
    /\ file \in FileInputs
    /\ materials = <<>>
    /\ walls = <<>>
    /\ openings = <<>>
    /\ cur = NoFields
    /\ material = NoMaterial
    /\ entered = NoEntry
    /\ msg = ""
    /\ exc = ""
    /\ total_wall_volume = None
    /\ perimeter = None
    /\ total_openings_volume = None
    /\ opening_details = <<>>
    /\ net_wall_volume = None
    /\ blocks_count = None
    /\ mortar_volume = None
    /\ blocks_in_walls = <<>>
    /\ reports = 0

\* A handler that would let everything but ValueError escape the function.
except_ValueError_only(e) ==
    IF e = "ValueError" THEN [pc |-> "error", msg |-> "error"]
    ELSE [pc |-> "crashed", msg |-> ""]

\* lines 314-315: `except Exception as e` prints one message for any exception
\* raised inside the try block (lines 124-312); the function then returns.
except_Exception(e) == [pc |-> "error", msg |-> "error"]

\* Outcomes of opening calculation_results.txt for appending (line 298).
ReportWriteOutcomes == {"", "OSError"}

\* lines 104-126: the catalog is loaded outside the try block, seeded and saved
\* when empty; then wall entry begins.
Start ==
    /\ pc = "start"
    /\ LET r == load_materials_from_file(file) IN
        IF r.exc # ""
        THEN /\ pc' = "crashed"
             /\ exc' = r.exc
             /\ UNCHANGED <<file, materials>>
        ELSE /\ pc' = "wall_length"
             /\ exc' = ""
             /\ materials' = IF r.materials = <<>> THEN DefaultMaterials ELSE r.materials
             /\ file' = IF r.materials = <<>>
                        THEN save_materials_to_file(DefaultMaterials) ELSE file
    /\ UNCHANGED <<walls, openings, cur, material, entered, msg, results, reports>>

\* One line typed at a field prompt of wall entry (lines 133-155): `field` is
\* the field the prompt p asks for, `next` the prompt after it.
WallField(p, entries, min_val, field, next) ==
    /\ pc = p
    /\ \E t \in entries :
        LET r == input_with_back(t, "float", min_val) IN
        /\ entered' = t
        /\ IF r.status = "back"
           THEN /\ walls' = undo_last(walls)
                /\ msg' = IF walls = <<>> THEN "no_walls" ELSE ""
                /\ pc' = back_target(p)
                /\ cur' = NoFields
           ELSE IF r.status = "ok"
           THEN /\ cur' = [cur EXCEPT ![field] = r.val]
                /\ pc' = next
                /\ msg' = ""
                /\ UNCHANGED walls
           ELSE /\ msg' = r.status
                /\ UNCHANGED <<pc, cur, walls>>
    /\ UNCHANGED <<file, materials, openings, material, exc, results, reports>>

WallLength == WallField("wall_length", WallLengthEntries, R(1, 10), "length", "wall_height")
WallHeight == WallField("wall_height", WallHeightEntries, R(1, 10), "height", "wall_width")

\* lines 149-157: the last field; a valid width completes the wall
WallWidth ==
    /\ pc = "wall_width"
    /\ \E t \in WallWidthEntries :
        LET r == input_with_back(t, "float", R(5, 100)) IN
        /\ entered' = t
        /\ IF r.status = "back"
           THEN /\ walls' = undo_last(walls)
                /\ msg' = IF walls = <<>> THEN "no_walls" ELSE ""
                /\ pc' = back_target(pc)
                /\ cur' = NoFields
           ELSE IF r.status = "ok"
           THEN /\ walls' = Append(walls, Wall(cur.length, cur.height, r.val))
                /\ pc' = "wall_more"
                /\ msg' = ""
                /\ cur' = NoFields
           ELSE /\ msg' = r.status
                /\ UNCHANGED <<pc, cur, walls>>
    /\ UNCHANGED <<file, materials, openings, material, exc, results, reports>>

\* wall_more_target without the minimum of two walls
wall_more_target_no_minimum(n, answer) ==
    IF answer = "y" THEN [pc |-> "wall_length", msg |-> ""]
    ELSE [pc |-> "choose", msg |-> ""]

\* lines 158-165: where the answer to "add another wall?" leads, with n walls
\* in the list
wall_more_target(n, answer) ==
    IF answer = "y" THEN [pc |-> "wall_length", msg |-> ""]
    ELSE IF n >= 4 THEN [pc |-> "choose", msg |-> ""]
    ELSE IF n < 2 THEN [pc |-> "wall_length", msg |-> "min_walls"]
    ELSE [pc |-> "choose", msg |-> ""]

\* lines 159-165
WallMore ==
    /\ pc = "wall_more"
    /\ \E t \in YesNoEntries :
        /\ t.str = "y" => Len(walls) < MaxWalls
        /\ entered' = t
        /\ pc' = wall_more_target(Len(walls), Lower(t.str)).pc
        /\ msg' = wall_more_target(Len(walls), Lower(t.str)).msg
    /\ UNCHANGED <<file, materials, walls, openings, cur, material, exc, results, reports>>

-----------------------------------------------------------------------------
(* Material selection and addition, lines 167-206 *)

HasKey(ms, key) == \E i \in 1..Len(ms) : ms[i].key = key
Get(ms, key) == ms[CHOOSE i \in 1..Len(ms) : ms[i].key = key].val

\* materials[key] = val: an existing key keeps its place, a new one is appended
Put(ms, key, val) ==
    IF HasKey(ms, key)
    THEN [i \in 1..Len(ms) |-> IF ms[i].key = key THEN [key |-> key, val |-> val] ELSE ms[i]]
    ELSE Append(ms, [key |-> key, val |-> val])

\* lines 175-201: what the line typed at the selection prompt leads to.
\* A line of digits k selects list(materials.values())[k - 1]; index -1 is the
\* last element, an index past the end raises IndexError.
choice_outcome(t, ms) ==
    LET choice == Lower(t.str) IN
    IF t.kind = "text" /\ choice = "q" THEN [kind |-> "quit", m |-> NoMaterial]
    ELSE IF t.kind = "text" /\ choice = "n" THEN [kind |-> "new", m |-> NoMaterial]
    ELSE IF t.kind = "num"
    THEN IF t.val.n - 1 >= Len(ms) THEN [kind |-> "IndexError", m |-> NoMaterial]
         ELSE IF t.val.n - 1 = -1 THEN [kind |-> "selected", m |-> ms[Len(ms)].val]
         ELSE [kind |-> "selected", m |-> ms[t.val.n].val]
    ELSE IF HasKey(ms, choice) THEN [kind |-> "selected", m |-> Get(ms, choice)]
    ELSE [kind |-> "not_found", m |-> NoMaterial]

Choose ==
    /\ pc = "choose"
    /\ \E t \in ChoiceEntries :
        LET o == choice_outcome(t, materials)
            e == wall_volume_exc(walls, o.m.width)
            wv == calculate_wall_volume(walls, o.m.width)
        IN
        /\ o.kind = "selected" => reports < MaxRuns
        /\ entered' = t
        /\ IF o.kind = "quit"
           THEN /\ pc' = "done" /\ msg' = "" /\ exc' = ""
                /\ UNCHANGED <<material, openings, results>>
           ELSE IF o.kind = "new"
           THEN /\ pc' = "mat_name" /\ msg' = "" /\ exc' = ""
                /\ UNCHANGED <<material, openings, results>>
           ELSE IF o.kind = "not_found"
           THEN /\ pc' = "choose" /\ msg' = "not_found" /\ exc' = ""
                /\ UNCHANGED <<material, openings, results>>
           ELSE IF o.kind = "IndexError"
           THEN /\ pc' = except_Exception("IndexError").pc
                /\ msg' = except_Exception("IndexError").msg
                /\ exc' = "IndexError"
                /\ UNCHANGED <<material, openings, results>>
           ELSE IF e # ""                                   \* line 206 raises
           THEN /\ pc' = except_Exception(e).pc
                /\ msg' = except_Exception(e).msg
                /\ exc' = e
                /\ material' = o.m
                /\ UNCHANGED <<openings, results>>
           ELSE /\ pc' = "op_name" /\ msg' = "" /\ exc' = ""
                /\ material' = o.m
                /\ total_wall_volume' = wv.volume
                /\ perimeter' = wv.perimeter
                /\ openings' = <<>>
                /\ UNCHANGED <<total_openings_volume, opening_details, net_wall_volume,
                               blocks_count, mortar_volume, blocks_in_walls>>
    /\ UNCHANGED <<file, materials, walls, cur, reports>>

\* line 180
MatName ==
    /\ pc = "mat_name"
    /\ \E t \in MatNameEntries :
        /\ entered' = t
        /\ cur' = [NoFields EXCEPT !.name = t.str]
    /\ pc' = "mat_length"
    /\ msg' = ""
    /\ UNCHANGED <<file, materials, walls, openings, material, exc, results, reports>>

\* lines 181-183: the value input_with_back returns is stored as it is, None
\* (the back keystroke) included.
MatDim(p, field, next) ==
    /\ pc = p
    /\ \E t \in MatDimEntries :
        LET r == input_with_back(t, "float", R(1, 100)) IN
        /\ entered' = t
        /\ IF r.status \in {"back", "ok"}
           THEN /\ cur' = [cur EXCEPT ![field] = r.val]
                /\ pc' = next
                /\ msg' = ""
           ELSE /\ msg' = r.status
                /\ UNCHANGED <<pc, cur>>
    /\ UNCHANGED <<file, materials, walls, openings, material, exc, results, reports>>

MatLength == MatDim("mat_length", "length", "mat_width")
MatWidth == MatDim("mat_width", "width", "mat_height")
MatHeight == MatDim("mat_height", "height", "mat_gost")

\* lines 184-188: the lookup either finds a title (printed) or yields None
MatGost ==
    /\ pc = "mat_gost"
    /\ \E t \in MatGostEntries, gost_info \in {"none", "found"} :
        /\ entered' = t
        /\ cur' = [cur EXCEPT !.gost = t.str]
        /\ msg' = IF gost_info = "found" THEN "gost_info" ELSE ""
    /\ pc' = "mat_mortar"
    /\ UNCHANGED <<file, materials, walls, openings, material, exc, results, reports>>

\* file_after_add leaving the file as it was
file_after_add_unsaved(ms, old_file) == old_file

\* line 193: the catalog file after an addition to the catalog ms
file_after_add(ms, old_file) == save_materials_to_file(ms)

\* lines 190-194
MatMortar ==
    /\ pc = "mat_mortar"
    /\ \E t \in MortarEntries :
        LET r == input_with_back(t, "float", I(0))
            m == Material(cur.name, cur.length, cur.width, cur.height, cur.gost, r.val)
        IN
        /\ entered' = t
        /\ IF r.status \in {"back", "ok"}
           THEN /\ material' = m
                /\ materials' = Put(materials, Lower(cur.name), m)
                /\ file' = file_after_add(materials', file)
                /\ pc' = "choose"
                /\ msg' = ""
                /\ cur' = NoFields
           ELSE /\ msg' = r.status
                /\ UNCHANGED <<pc, cur, material, materials, file>>
    /\ UNCHANGED <<walls, openings, exc, results, reports>>

-----------------------------------------------------------------------------
(* Opening entry and the calculation run, lines 209-312 *)

\* A named opening is started (lines 212-214 with a non-empty name).
OpName ==
    /\ pc = "op_name"
    /\ Len(openings) < MaxOpenings
    /\ \E t \in OpNameEntries :
        /\ t.kind = "text"
        /\ entered' = t
        /\ cur' = [NoFields EXCEPT !.name = t.str]
    /\ pc' = "op_length"
    /\ msg' = ""
    /\ UNCHANGED <<file, materials, walls, openings, material, exc, results, reports>>

\* One line typed at a field prompt of opening entry (lines 216-238).
OpField(p, entries, input_type, min_val, field, next) ==
    /\ pc = p
    /\ \E t \in entries :
        LET r == input_with_back(t, input_type, min_val) IN
        /\ entered' = t
        /\ IF r.status = "back"
           THEN /\ openings' = undo_last(openings)
                /\ msg' = IF openings = <<>> THEN "no_openings" ELSE ""
                /\ pc' = back_target(p)
                /\ cur' = NoFields
           ELSE IF r.status = "ok"
           THEN /\ cur' = [cur EXCEPT ![field] = r.val]
                /\ pc' = next
                /\ msg' = ""
                /\ UNCHANGED openings
           ELSE /\ msg' = r.status
                /\ UNCHANGED <<pc, cur, openings>>
    /\ UNCHANGED <<file, materials, walls, material, exc, results, reports>>

OpLength == OpField("op_length", OpLengthEntries, "float", R(1, 10), "length", "op_height")
OpHeight == OpField("op_height", OpHeightEntries, "float", R(1, 10), "height", "op_count")
OpCount == OpField("op_count", OpCountEntries, "int", I(1), "count", "op_width")

\* lines 240-243: the width is read with input(), not input_with_back: an empty
\* line is None, anything else goes through float(), whose ValueError is caught
\* only by the handler of line 314.
OpWidth ==
    /\ pc = "op_width"
    /\ \E t \in OpWidthEntries :
        /\ entered' = t
        /\ IF t.kind \in {"empty", "num"}
           THEN /\ openings' = Append(openings,
                        Opening(cur.name, cur.length, cur.height, cur.count, t.val))
                /\ pc' = "op_name"
                /\ msg' = ""
                /\ exc' = ""
                /\ cur' = NoFields
           ELSE /\ pc' = except_Exception("ValueError").pc
                /\ msg' = except_Exception("ValueError").msg
                /\ exc' = "ValueError"
                /\ UNCHANGED <<openings, cur>>
    /\ UNCHANGED <<file, materials, walls, material, results, reports>>

\* An empty opening name ends opening entry (line 214); lines 245-311 run: the
\* volumes, the counts, the printed results and the block appended to
\* calculation_results.txt.  An exception leaves the later variables unassigned.
Calculate ==
    /\ pc = "op_name"
    /\ LET avg == avg_wall_width(walls)
           total == compute_openings_total(openings, avg)
           net == compute_net_volume(total_wall_volume, total)
           f == run_fault(walls, material)
       IN
       /\ entered' = Empty
       /\ total_openings_volume' = total
       /\ opening_details' = compute_opening_details(openings, avg)
       /\ net_wall_volume' = net
       /\ blocks_count' = IF f.line = 259 THEN blocks_count
                          ELSE compute_material_count(net, material)
       /\ mortar_volume' = IF f.line \in {259, 263} THEN mortar_volume
                           ELSE compute_mortar_volume(net, material)
       /\ blocks_in_walls' = IF f.line \in {259, 263} THEN blocks_in_walls
                             ELSE IF f.line = 268 THEN <<>>
                             ELSE compute_units_per_wall(walls, material)
       /\ \E io \in ReportWriteOutcomes :
            LET e == IF f.line # 0 THEN f.exc ELSE io IN
            IF e # ""
            THEN /\ pc' = except_Exception(e).pc
                 /\ msg' = except_Exception(e).msg
                 /\ exc' = e
                 /\ reports' = reports
            ELSE /\ pc' = "results"
                 /\ msg' = "saved"
                 /\ exc' = ""
                 /\ reports' = reports + 1
    /\ UNCHANGED <<file, materials, walls, openings, cur, material, total_wall_volume,
                   perimeter>>

\* line 312: Enter returns to the selection prompt.  Every local of the run is
\* assigned again before it is read (lines 191-209, 246-266), so the model
\* forgets the values here.
Continue ==
    /\ pc = "results"
    /\ pc' = "choose"
    /\ entered' = Empty
    /\ msg' = ""
    /\ material' = NoMaterial
    /\ openings' = <<>>
    /\ total_wall_volume' = None
    /\ perimeter' = None
    /\ total_openings_volume' = None
    /\ opening_details' = <<>>
    /\ net_wall_volume' = None
    /\ blocks_count' = None
    /\ mortar_volume' = None
    /\ blocks_in_walls' = <<>>
    /\ UNCHANGED <<file, materials, walls, cur, exc, reports>>

Next ==
    \/ Start
    \/ WallLength \/ WallHeight \/ WallWidth \/ WallMore
    \/ Choose
    \/ MatName \/ MatLength \/ MatWidth \/ MatHeight \/ MatGost \/ MatMortar
    \/ OpName \/ OpLength \/ OpHeight \/ OpCount \/ OpWidth
    \/ Calculate \/ Continue

Spec == Init /\ [][Next]_vars

-----------------------------------------------------------------------------
(* calculate_wall_volume as a function of its arguments: the specification   *)
(* SpecWV draws a wall list and a material width and applies the function.   *)

WVWallInputs ==
    { Wall(I(6), I(3), R(3, 10)), Wall(I(10), I(3), R(3, 10)),
      Wall(I(6), R(5, 2), R(1, 2)), Wall(I(10), R(5, 2), R(1, 2)),
      Wall(I(8), I(3), R(1, 2)), Wall(R(1, 10), R(5, 2), R(3, 10)) }

WVWallLists == UNION {[1..k -> WVWallInputs] : k \in 0..MaxWVWalls}

WVMaterials == {DefaultMaterials[1].val, DefaultMaterials[2].val}

InitWV ==
    /\ pc = "wv_call"
    /\ walls \in WVWallLists
    /\ material \in WVMaterials
    /\ file = FileOf("missing", <<>>)
    /\ materials = <<>>
    /\ openings = <<>>
    /\ cur = NoFields
    /\ entered = NoEntry
    /\ msg = ""
    /\ exc = ""
    /\ total_wall_volume = None
    /\ perimeter = None
    /\ total_openings_volume = None
    /\ opening_details = <<>>
    /\ net_wall_volume = None
    /\ blocks_count = None
    /\ mortar_volume = None
    /\ blocks_in_walls = <<>>
    /\ reports = 0

\* line 206: total_wall_volume, perimeter = calculate_wall_volume(walls, material.width)
ApplyWallVolume ==
    /\ pc = "wv_call"
    /\ pc' = "wv_done"
    /\ LET wv == calculate_wall_volume(walls, material.width) IN
        /\ total_wall_volume' = wv.volume
        /\ perimeter' = wv.perimeter
    /\ UNCHANGED <<file, materials, walls, openings, cur, material, entered, msg, exc,
                   total_openings_volume, opening_details, net_wall_volume,
                   blocks_count, mortar_volume, blocks_in_walls, reports>>

NextWV == ApplyWallVolume

SpecWV == InitWV /\ [][NextWV]_vars

-----------------------------------------------------------------------------
(* Properties *)

Count(ws, x) == Cardinality({i \in 1..Len(ws) : ws[i].length = x})
Positive(x) == ~IsNone(x) /\ RLt(I(0), x)
NonNegative(x) == ~IsNone(x) /\ RLe(I(0), x)

\* C1: in every run with a non-negative gross wall volume and a non-negative
\* total opening volume, the net volume is gross - openings when openings <=
\* gross and exactly 0 when openings > gross; it is never negative.
C1_NetVolumeClamped ==
    (~IsNone(net_wall_volume) /\ NonNegative(total_wall_volume)
        /\ NonNegative(total_openings_volume))
    => /\ net_wall_volume =
            IF RLe(total_openings_volume, total_wall_volume)
            THEN RSub(total_wall_volume, total_openings_volume)
            ELSE I(0)
       /\ RLe(I(0), net_wall_volume)

\* a run whose openings exceed the gross wall volume
C1_Witness ==
    /\ pc = "results"
    /\ Positive(total_wall_volume)
    /\ RLt(total_wall_volume, total_openings_volume)
    /\ net_wall_volume = I(0)

\* C2: for 4 walls whose lengths are {a, a, b, b} with a # b, in any order,
\* calculate_wall_volume returns perimeter 2*(a+b).
C2_RectanglePerimeter ==
    (pc = "wv_done" /\ Len(walls) = 4)
    => \A a, b \in unique_lengths(walls) :
          (a # b /\ Count(walls, a) = 2 /\ Count(walls, b) = 2)
          => perimeter = RMul(I(2), RAdd(a, b))

\* two pairs entered alternately, with heights and widths that differ
C2_Witness ==
    /\ pc = "wv_done"
    /\ Len(walls) = 4
    /\ walls[1].length = walls[3].length
    /\ walls[2].length = walls[4].length
    /\ walls[1].length # walls[2].length
    /\ walls[1].height # walls[3].height
    /\ walls[2].width # walls[4].width
    /\ perimeter = RMul(I(2), RAdd(walls[1].length, walls[2].length))

\* C3: for a non-empty wall list that is not 4 walls with exactly 2 distinct
\* lengths, perimeter is the sum of the lengths and the gross volume is the
\* sum of the face areas times the mean wall width (volume * n = areas * widths).
C3_GeneralFormula ==
    (pc = "wv_done" /\ walls # <<>>
        /\ (Len(walls) # 4 \/ Cardinality({walls[i].length : i \in 1..Len(walls)}) # 2))
    => /\ perimeter = RSum(Lengths(walls))
       /\ RMul(total_wall_volume, I(Len(walls)))
            = RMul(RSum(Areas(walls)), RSum(Widths(walls)))

\* 4 walls of 4 distinct lengths, computed by the general formula
C3_Witness ==
    /\ pc = "wv_done"
    /\ Len(walls) = 4
    /\ Cardinality({walls[i].length : i \in 1..4}) = 4
    /\ perimeter = RSum(Lengths(walls))

\* C4: whenever the rectangular shortcut is applied, each of the two distinct
\* lengths occurs on exactly two of the four walls.
C4_ShortcutHasTwoPairs ==
    (~IsNone(perimeter) /\ is_rectangular(walls))
    => \A a \in unique_lengths(walls) : Count(walls, a) = 2

\* C5: with a chosen material one of whose dimensions is 0, the run does not
\* fail and ends with a unit count of exactly 0.
C5_ZeroDimensionRunCompletes ==
    (material # NoMaterial
        /\ (IsZero(material.length) \/ IsZero(material.width) \/ IsZero(material.height)))
    => /\ pc # "error"
       /\ pc = "results" => blocks_count = I(0)

\* C6: with a material of positive dimensions the per-wall list of a run has
\* one entry per wall, numbered 1..n in order, each with a count of at least 1.
C6_UnitsPerWallAtLeastOne ==
    (pc = "results" /\ Positive(material.length) /\ Positive(material.width)
        /\ Positive(material.height))
    => /\ Len(blocks_in_walls) = Len(walls)
       /\ \A i \in 1..Len(blocks_in_walls) :
            blocks_in_walls[i][1] = i /\ blocks_in_walls[i][2] >= 1

\* a run with a wall shorter than half the material: the rounded ratio is 0
C6_Witness ==
    /\ pc = "results"
    /\ Len(blocks_in_walls) >= 2
    /\ \E i \in 1..Len(walls) :
        /\ Round(RDiv(walls[i].length, material.length)) = 0
        /\ blocks_in_walls[i][2] >= 1


WallPrompts == {"wall_length", "wall_height", "wall_width"}
OpeningPrompts == {"op_length", "op_height", "op_count"}
MaterialPrompts == {"mat_length", "mat_width", "mat_height", "mat_mortar"}

\* the type and the minimum each input_with_back prompt is called with
PromptType(p) == IF p = "op_count" THEN "int" ELSE "float"
PromptMin(p) ==
    CASE p \in {"wall_length", "wall_height", "op_length", "op_height"} -> R(1, 10)
      [] p = "wall_width" -> R(5, 100)
      [] p = "op_count" -> I(1)
      [] p = "mat_mortar" -> I(0)
      [] OTHER -> R(1, 100)

\* the line t is a non-numeric, below-minimum or out-of-range entry at prompt p
\* (at the selection prompt: a number past the end of the list)
InvalidEntry(p, t) ==
    IF p \in WallPrompts \cup OpeningPrompts \cup MaterialPrompts
    THEN input_with_back(t, PromptType(p), PromptMin(p)).status \in {"bad_type", "below_min"}
    ELSE IF p = "op_width" THEN t.kind \notin {"empty", "num"}
    ELSE IF p = "choose" THEN t.kind = "num" /\ t.val.n > Len(materials)
    ELSE FALSE

\* C7: at every prompt that expects a number, an invalid entry is reported,
\* the same prompt is issued again, and walls, openings and catalog are unchanged.
C7_InvalidEntryNeverFatal ==
    [][InvalidEntry(pc, entered')
        => /\ pc' = pc
           /\ msg' \in {"bad_type", "below_min", "not_found"}
           /\ walls' = walls
           /\ openings' = openings
           /\ materials' = materials]_vars

\* the prompt of the field entered just before the one p asks for
PreviousPrompt(p) ==
    CASE p = "wall_height" -> "wall_length"
      [] p = "wall_width" -> "wall_height"
      [] p = "op_length" -> "op_name"
      [] p = "op_height" -> "op_length"
      [] OTHER -> "op_height"

C9_BackRemovesLastEntry ==
    [][(entered' = Back /\ pc \in WallPrompts \cup OpeningPrompts)
        => /\ pc \in WallPrompts =>
                /\ walls' = IF walls = <<>> THEN <<>>
                            ELSE [i \in 1..(Len(walls) - 1) |-> walls[i]]
                /\ openings' = openings
                /\ pc' = "wall_length"
           /\ pc \in OpeningPrompts =>
                /\ openings' = IF openings = <<>> THEN <<>>
                               ELSE [i \in 1..(Len(openings) - 1) |-> openings[i]]
                /\ walls' = walls
                /\ pc' = "op_name"]_vars

\* 'w' removed the last wall of a list and the earlier walls remain
C9_Witness ==
    /\ pc = "wall_length"
    /\ entered = Back
    /\ msg = ""
    /\ Len(walls) >= 2

\* C10: whatever the catalog file holds at startup, loading it is not an
\* error, and the session starts with a non-empty catalog that the file holds.
C10_BadCatalogNeverAnError ==
    pc # "start"
    => /\ pc # "crashed"
       /\ materials # <<>>
       /\ file = save_materials_to_file(materials)


-----------------------------------------------------------------------------
(* Saving a catalog and loading it again: the specification SpecRT draws a   *)
(* catalog and applies save_materials_to_file, then load_materials_from_file *)

MaxRTMaterials == 2

RTNames == {"Gas", "Slab", "Plita"}

RTMaterialInputs ==
    { Material(n, l, R(12, 100), h, "GOST 530-2012", r) :
        n \in RTNames, l \in {None, R(1, 4)}, h \in {None, R(65, 1000)},
        r \in {None, I(0), DefaultMortarRate} }

RTCatalogs ==
    { [i \in 1..Len(ms) |-> [key |-> Lower(ms[i].name), val |-> ms[i]]] :
        ms \in { c \in UNION {[1..k -> RTMaterialInputs] : k \in 0..MaxRTMaterials} :
                    \A i, j \in 1..Len(c) : i # j => c[i].name # c[j].name } }

InitRT ==
    /\ pc = "rt_call"
    /\ materials \in RTCatalogs
    /\ file = FileOf("missing", <<>>)
    /\ walls = <<>>
    /\ openings = <<>>
    /\ cur = NoFields
    /\ material = NoMaterial
    /\ entered = NoEntry
    /\ msg = ""
    /\ exc = ""
    /\ total_wall_volume = None
    /\ perimeter = None
    /\ total_openings_volume = None
    /\ opening_details = <<>>
    /\ net_wall_volume = None
    /\ blocks_count = None
    /\ mortar_volume = None
    /\ blocks_in_walls = <<>>
    /\ reports = 0

\* save_materials_to_file(materials), then materials = load_materials_from_file()
SaveThenLoad ==
    /\ pc = "rt_call"
    /\ pc' = "rt_done"
    /\ file' = save_materials_to_file(materials)
    /\ exc' = load_materials_from_file(file').exc
    /\ materials' = load_materials_from_file(file').materials
    /\ UNCHANGED <<walls, openings, cur, material, entered, msg, results, reports>>

NextRT == SaveThenLoad

SpecRT == InitRT /\ [][NextRT]_vars

\* C11: at every material-selection prompt the catalog read back from the file
\* is the in-memory catalog: the same keys in the same order, the same fields.
C11_FileHoldsCatalog ==
    pc = "choose"
    => /\ load_materials_from_file(file).exc = ""
       /\ load_materials_from_file(file).materials = materials

\* the selection prompt after a material was added to the catalog
C11_Witness ==
    /\ pc = "choose"
    /\ HasKey(materials, "gas")
    /\ Len(materials) = 3
    /\ file.tag = "dict"
    /\ Len(file.entries) = 3

TryPhases ==
    WallPrompts \cup OpeningPrompts \cup MaterialPrompts
        \cup {"wall_more", "choose", "results"}

ValidDimensions(m) ==
    /\ Positive(m.length)
    /\ Positive(m.width)
    /\ Positive(m.height)
    /\ NonNegative(m.mortar_rate)

\* the entries the operator added at the new-material prompts
OperatorAdded(ms) == {i \in 1..Len(ms) : ms[i].key = Lower("Gas")}

\* C14: every material the operator has added, in the in-memory catalog and
\* in the catalog file, has numeric length, width and height > 0 and a numeric
\* mortar_rate >= 0, the back keystroke at those prompts included.
C14_AddedMaterialsValid ==
    /\ \A i \in OperatorAdded(materials) : ValidDimensions(materials[i].val)
    /\ LET r == load_materials_from_file(file) IN
        r.exc = "" =>
            \A i \in OperatorAdded(r.materials) : ValidDimensions(r.materials[i].val)

\* ---------------------------------------------------------------------------
(* The opening volumes as a function of the walls and the openings,
   lines 245-254 *)

OVWallInputs == {Wall(I(6), I(3), R(1, 5)), Wall(I(6), I(3), R(3, 10)),
                 Wall(I(10), I(3), R(1, 2))}

OVWallLists == UNION {[1..k -> OVWallInputs] : k \in 2..MaxWalls}

OVOpeningInputs ==
    { Opening(n, IF n = "okno" THEN R(3, 2) ELSE I(1),
                 IF n = "okno" THEN R(3, 2) ELSE I(2), I(c), w) :
        n \in {"okno", "dver"}, c \in {1, 2}, w \in {None, R(1, 4)} }

OVOpeningLists == UNION {[1..k -> OVOpeningInputs] : k \in 0..MaxOpenings}

InitOV ==
    /\ pc = "ov_call"
    /\ walls \in OVWallLists
    /\ openings \in OVOpeningLists
    /\ file = FileOf("missing", <<>>)
    /\ materials = <<>>
    /\ cur = NoFields
    /\ material = NoMaterial
    /\ entered = NoEntry
    /\ msg = ""
    /\ exc = ""
    /\ total_wall_volume = None
    /\ perimeter = None
    /\ total_openings_volume = None
    /\ opening_details = <<>>
    /\ net_wall_volume = None
    /\ blocks_count = None
    /\ mortar_volume = None
    /\ blocks_in_walls = <<>>
    /\ reports = 0

\* lines 246-254
ApplyOpeningVolumes ==
    /\ pc = "ov_call"
    /\ pc' = "ov_done"
    /\ LET avg == avg_wall_width(walls) IN
        /\ total_openings_volume' = compute_openings_total(openings, avg)
        /\ opening_details' = compute_opening_details(openings, avg)
    /\ UNCHANGED <<file, materials, walls, openings, cur, material, entered, msg, exc,
                   total_wall_volume, perimeter, net_wall_volume, blocks_count,
                   mortar_volume, blocks_in_walls, reports>>

NextOV == ApplyOpeningVolumes

SpecOV == InitOV /\ [][NextOV]_vars

\* the sum of the volumes of the first k pairs of a breakdown
RECURSIVE PrefixVolume(_, _)
PrefixVolume(details, k) ==
    IF k = 0 THEN I(0) ELSE RAdd(PrefixVolume(details, k - 1), details[k][2])

\* v is length * height * effective width * count for the opening op: with
\* the opening's own width when it has one, and otherwise with the mean of
\* the wall widths (v * number of walls = length * height * count * sum of
\* the wall widths).
IsOpeningVolume(v, op, ws) ==
    LET face == RMul(RMul(op.length, op.height), op.count) IN
    IF ~IsNone(op.width)
    THEN v = RMul(face, op.width)
    ELSE RMul(v, I(Len(ws))) = RMul(face, RSum(Widths(ws)))

\* C15: after the opening volumes are computed, the breakdown has one
\* (name, volume) pair per opening in entry order, each volume is
\* length * height * effective width * count, the total is the sum of the
\* volumes, and with no openings the total is 0 and the breakdown is empty.
C15_OpeningVolumes ==
    pc = "ov_done" =>
        /\ Len(opening_details) = Len(openings)
        /\ \A i \in 1..Len(openings) :
            /\ opening_details[i][1] = openings[i].name
            /\ IsOpeningVolume(opening_details[i][2], openings[i], walls)
        /\ total_openings_volume = PrefixVolume(opening_details, Len(opening_details))
        /\ openings = <<>> => total_openings_volume = I(0) /\ opening_details = <<>>

C15_Witness ==
    /\ pc = "ov_done"
    /\ Len(openings) = 2
    /\ IsNone(openings[1].width) /\ openings[1].count = I(2)
    /\ ~IsNone(openings[2].width) /\ openings[2].name # openings[1].name
    /\ \E i, j \in 1..Len(walls) : walls[i].width # walls[j].width
    /\ total_openings_volume = RAdd(opening_details[1][2], opening_details[2][2])
    /\ RLt(I(0), opening_details[1][2])

\* ---------------------------------------------------------------------------
\* C16: in every state of the session each catalog entry is keyed by the
\* lowercased name of the material it holds, the seeded defaults as well as
\* the materials the operator added.
C16_KeyIsLowercasedName ==
    \A i \in 1..Len(materials) : materials[i].key = Lower(materials[i].val.name)

\* ---------------------------------------------------------------------------
\* C17: in every completed run the total opening volume is not negative and
\* the net masonry volume lies between 0 and the gross wall volume, whatever
\* the operator entered for the openings, the custom opening width included.
C17_NetWithinGross ==
    pc = "results" =>
        /\ RLe(I(0), total_openings_volume)
        /\ RLe(I(0), net_wall_volume)
        /\ RLe(net_wall_volume, total_wall_volume)

WallPhases == WallPrompts \cup {"wall_more"}
LeftWallEntry(p) == p \notin WallPhases \cup {"start", "crashed"}

\* C19: the wall-entry phase is only left with at least 2 walls in the list,
\* so every material selection and calculation run has a wall list of length
\* >= 2, and once the phase is left the list is never modified again.
C19_AtLeastTwoWallsThenFrozen ==
    [][/\ LeftWallEntry(pc') => Len(walls') >= 2
       /\ LeftWallEntry(pc) => walls' = walls /\ LeftWallEntry(pc')]_vars

C19_Witness ==
    /\ pc = "results"
    /\ reports = 1
    /\ Len(walls) = 2
    /\ Len(openings) = 1

====
